---- MODULE Spec2Model ----
(***************************************************************************)
(* A model of the CSV ingestion pipeline of csvparser:                     *)
(*   - services/parser.js  (CSVParser: parseCSVFile, parseCSVLine,         *)
(*     validateMandatoryFields, convertRowToObject, setNestedProperty),    *)
(*   - services/databaseService.js (clearUsersTable, uploadUsersBatch),    *)
(*   - app.js (the handler of POST /api/process-csv).                      *)
(*                                                                         *)
(* A JavaScript string is a sequence of one-character strings.  A          *)
(* JavaScript value is tagged: [t |-> "str", v |-> chars],                 *)
(* [t |-> "int", v |-> n], [t |-> "nan"], [t |-> "obj", v |-> f] where f   *)
(* maps keys (strings) to values, [t |-> "undef"] and [t |-> "null"].      *)
(* Key order of objects is not modelled.                                   *)
(***************************************************************************)
EXTENDS Integers, Sequences, FiniteSets, TLC

(***************************************************************************)
(* Bounds of the model.                                                    *)
(***************************************************************************)
\* Lines delivered by the read streams of all requests together (headers
\* included).
MaxLines == 3
\* Failures of the environment in one behaviour: a query or pool.connect()
\* that fails, a log file that cannot be written.
MaxFaults == 1
\* Ingestion requests (POST /api/process-csv) in one behaviour.
MaxRuns == 2

(***************************************************************************)
(* Program constants.                                                      *)
(***************************************************************************)
\* this.batchSize of CSVParser.  The program sets 1000; the model scales it
\* down so that full batches are reached within MaxLines lines.
batchSize == 2

F_firstName == <<"n", "a", "m", "e", ".", "f", "i", "r", "s", "t", "N", "a", "m", "e">>
F_lastName == <<"n", "a", "m", "e", ".", "l", "a", "s", "t", "N", "a", "m", "e">>
F_age == <<"a", "g", "e">>
\* this.mandatoryFields
mandatoryFields == <<F_firstName, F_lastName, F_age>>

K_name == <<"n", "a", "m", "e">>
K_firstName == <<"f", "i", "r", "s", "t", "N", "a", "m", "e">>
K_lastName == <<"l", "a", "s", "t", "N", "a", "m", "e">>
K_address == <<"a", "d", "d", "r", "e", "s", "s">>
K_additional_info == <<"a", "d", "d", "i", "t", "i", "o", "n", "a", "l", "_", "i", "n", "f", "o">>

(***************************************************************************)
(* Strings.                                                                *)
(***************************************************************************)
Range(s) == {s[i] : i \in DOMAIN s}

\* The white space String.prototype.trim removes, within the model's alphabet.
IsSpace(c) == c \in {" ", "\t"}

RECURSIVE TrimStart(_)
TrimStart(s) == IF s # <<>> /\ IsSpace(Head(s)) THEN TrimStart(Tail(s)) ELSE s

RECURSIVE TrimEnd(_)
TrimEnd(s) ==
  IF s # <<>> /\ IsSpace(s[Len(s)]) THEN TrimEnd(SubSeq(s, 1, Len(s) - 1)) ELSE s

\* String.prototype.trim
trim(s) == TrimEnd(TrimStart(s))

\* String.prototype.split('.'): the pieces between the dots, at least one.
RECURSIVE SplitFrom(_, _, _)
SplitFrom(s, cur, acc) ==
  IF s = <<>> THEN Append(acc, cur)
  ELSE IF Head(s) = "." THEN SplitFrom(Tail(s), <<>>, Append(acc, cur))
  ELSE SplitFrom(Tail(s), Append(cur, Head(s)), acc)

split(path) == SplitFrom(path, <<>>, <<>>)

Digits == {"0", "1", "2", "3", "4", "5", "6", "7", "8", "9"}

DigitVal(c) ==
  CASE c = "0" -> 0 [] c = "1" -> 1 [] c = "2" -> 2 [] c = "3" -> 3 [] c = "4" -> 4
    [] c = "5" -> 5 [] c = "6" -> 6 [] c = "7" -> 7 [] c = "8" -> 8 [] c = "9" -> 9

AllDigits(s) == \A i \in DOMAIN s : s[i] \in Digits

\* The length of the longest prefix of s made of decimal digits.
RECURSIVE DigitPrefixLen(_)
DigitPrefixLen(s) ==
  IF s # <<>> /\ Head(s) \in Digits THEN 1 + DigitPrefixLen(Tail(s)) ELSE 0

RECURSIVE DecimalValue(_, _)
DecimalValue(s, acc) ==
  IF s = <<>> THEN acc ELSE DecimalValue(Tail(s), 10 * acc + DigitVal(Head(s)))

StripSign(s) == IF s # <<>> /\ Head(s) \in {"+", "-"} THEN Tail(s) ELSE s

\* An unsigned StrDecimalLiteral without exponent: digits, digits "." digits*,
\* or "." digits.
IsUnsignedDecimal(u) ==
  LET n == DigitPrefixLen(u)
      rest == SubSeq(u, n + 1, Len(u))
  IN  \/ n > 0 /\ rest = <<>>
      \/ n > 0 /\ Head(rest) = "." /\ AllDigits(Tail(rest))
      \/ n = 0 /\ rest # <<>> /\ Head(rest) = "." /\ Len(rest) > 1 /\ AllDigits(Tail(rest))

\* isNaN(value) of a string: Number(value) is NaN.  The empty (or blank) string
\* converts to 0; a signed decimal literal or a signed "Infinity" converts to a
\* number.  Exponents and the 0x, 0o, 0b literals are outside the model's alphabet.
isNaN(value) ==
  LET s == trim(value)
      u == StripSign(s)
  IN  ~ \/ s = <<>>
        \/ IsUnsignedDecimal(u)
        \/ u = <<"I", "n", "f", "i", "n", "i", "t", "y">>

\* parseInt(value) and parseInt(value, 10) on the model's alphabet: white space
\* skipped, an optional sign, then the longest prefix of decimal digits; NaN when
\* that prefix is empty.
parseIntIsNaN(value) == DigitPrefixLen(StripSign(TrimStart(value))) = 0

parseInt(value) ==
  LET s == TrimStart(value)
      u == StripSign(s)
      n == DecimalValue(SubSeq(u, 1, DigitPrefixLen(u)), 0)
  IN  IF s # <<>> /\ Head(s) = "-" THEN 0 - n ELSE n

(***************************************************************************)
(* parseCSVLine: one left-to-right scan with the insideQuotes flag.        *)
(***************************************************************************)
RECURSIVE ScanLine(_, _, _, _, _)
ScanLine(line, i, current, insideQuotes, values) ==
  IF i > Len(line) THEN Append(values, trim(current))
  ELSE
    LET char == line[i] IN
    IF char = "\""
    THEN IF insideQuotes /\ i + 1 <= Len(line) /\ line[i + 1] = "\""
         THEN ScanLine(line, i + 2, Append(current, "\""), insideQuotes, values)
         ELSE ScanLine(line, i + 1, current, ~insideQuotes, values)
    ELSE IF char = "," /\ ~insideQuotes
         THEN ScanLine(line, i + 1, <<>>, insideQuotes, Append(values, trim(current)))
         ELSE ScanLine(line, i + 1, Append(current, char), insideQuotes, values)

\* A scan that starts inside quotes.
parseCSVLineFromInside(line) == ScanLine(line, 1, <<>>, TRUE, <<>>)

parseCSVLine(line) == ScanLine(line, 1, <<>>, FALSE, <<>>)

(***************************************************************************)
(* validateMandatoryFields                                                 *)
(***************************************************************************)
Includes(seq, x) == \E i \in DOMAIN seq : seq[i] = x

IsMissing(headers, field) == ~Includes(headers, field)

RECURSIVE FilterMissing(_, _)
FilterMissing(fields, headers) ==
  IF fields = <<>> THEN <<>>
  ELSE IF IsMissing(headers, Head(fields))
       THEN <<Head(fields)>> \o FilterMissing(Tail(fields), headers)
       ELSE FilterMissing(Tail(fields), headers)

missingFields(headers) == FilterMissing(mandatoryFields, headers)

\* What a call returns or throws: [ok |-> TRUE, value |-> v] or
\* [ok |-> FALSE, message |-> m], m the pieces of the template literal.
Return(v) == [ok |-> TRUE, value |-> v]
Throw(m) == [ok |-> FALSE, message |-> m]

validateMandatoryFields(headers) ==
  IF Len(missingFields(headers)) > 0
  THEN Throw(<<"Missing mandatory fields: ", missingFields(headers)>>)
  ELSE Return(TRUE)

(***************************************************************************)
(* JavaScript values and objects.                                          *)
(***************************************************************************)
Str(s) == [t |-> "str", v |-> s]
IntVal(n) == [t |-> "int", v |-> n]
NaN == [t |-> "nan", v |-> 0]
Undefined == [t |-> "undef", v |-> 0]
Null == [t |-> "null", v |-> 0]
Obj(f) == [t |-> "obj", v |-> f]

\* {}: the object without keys.
EmptyObject == [k \in {} |-> Undefined]

\* obj[key] = val
Put(f, key, val) == [k \in DOMAIN f \cup {key} |-> IF k = key THEN val ELSE f[k]]

\* obj.key, undefined when the key is absent.
Get(f, key) == IF key \in DOMAIN f THEN f[key] ELSE Undefined

(***************************************************************************)
(* setNestedProperty(obj, path, value): f is the key map of obj, keys the  *)
(* path split on '.'.  Intermediate keys that are absent or hold a         *)
(* non-object are replaced by a fresh object; the leaf 'age' with a        *)
(* numeric value is stored as parseInt(value, 10).                         *)
(***************************************************************************)
Leaf(lastKey, value) ==
  IF lastKey = F_age /\ ~isNaN(value)
  THEN IF parseIntIsNaN(value) THEN NaN ELSE IntVal(parseInt(value))
  ELSE Str(value)

RECURSIVE SetKeys(_, _, _)
SetKeys(f, keys, value) ==
  IF Len(keys) = 1 THEN Put(f, keys[1], Leaf(keys[1], value))
  ELSE
    LET key == keys[1]
        child == IF key \in DOMAIN f /\ f[key].t = "obj" THEN f[key].v ELSE EmptyObject
    IN  Put(f, key, Obj(SetKeys(child, Tail(keys), value)))

setNestedProperty(f, path, value) == SetKeys(f, split(path), value)

(***************************************************************************)
(* convertRowToObject(headers, values)                                     *)
(***************************************************************************)
\* The age rule: value === '' || isNaN(value) || parseInt(value) < 0.
\* parseInt of a numeric string may be NaN, and NaN < 0 is false.
InvalidAge(value) ==
  \/ value = <<>>
  \/ isNaN(value)
  \/ (~parseIntIsNaN(value) /\ parseInt(value) < 0)

RECURSIVE ConvertFrom(_, _, _, _, _)
ConvertFrom(headers, values, i, result, additionalInfo) ==
  IF i > Len(headers)
  THEN Return(Obj(IF DOMAIN additionalInfo # {}
                  THEN Put(result, K_additional_info, Obj(additionalInfo))
                  ELSE result))
  ELSE IF i > Len(values)
  THEN Throw(<<"Cannot read properties of undefined (reading 'trim')">>)
  ELSE
    LET header == trim(headers[i])
        value == trim(values[i])
    IN  IF Includes(mandatoryFields, header)
        THEN IF header = F_age /\ InvalidAge(value)
             THEN Throw(<<"Invalid age value: \"", value,
                          "\". Age must be a valid positive number.">>)
             ELSE ConvertFrom(headers, values, i + 1,
                              setNestedProperty(result, header, value), additionalInfo)
        ELSE ConvertFrom(headers, values, i + 1, result,
                         setNestedProperty(additionalInfo, header, value))

convertRowToObject(headers, values) ==
  ConvertFrom(headers, values, 1, EmptyObject, EmptyObject)

(***************************************************************************)
(* uploadUsersBatch: the row built from one record (the loop body).        *)
(***************************************************************************)
UndefinedText == <<"u", "n", "d", "e", "f", "i", "n", "e", "d">>

\* `${x}` of a leaf.
Text(x) == IF x.t = "str" THEN x.v ELSE UndefinedText

\* JavaScript truthiness of a value of a record.
Truthy(x) ==
  \/ x.t = "obj"
  \/ (x.t = "str" /\ x.v # <<>>)
  \/ (x.t = "int" /\ x.v # 0)

\* A delete that removes nothing.
RemoveNothing(f, key) == f

\* delete additionalInfo.address
Remove(f, key) == [k \in DOMAIN f \ {key} |-> f[k]]

\* name.firstName with name undefined raises a TypeError.
RowThrows(userData) == Get(userData.obj.v, K_name).t # "obj"

\* The four values pushed for one record.  address and additional_info are
\* stored as JSON documents or as null; line is the input line the record was
\* materialized from (the identity of the JavaScript object).
BuildRow(userData) ==
  LET name == Get(userData.obj.v, K_name)
      age == Get(userData.obj.v, F_age)
      additional_info == Get(userData.obj.v, K_additional_info)
      info == IF additional_info.t = "obj" THEN additional_info.v ELSE EmptyObject
      address == Get(info, K_address)
      additionalInfo == IF Truthy(address) THEN Remove(info, K_address) ELSE info
  IN  [ name |-> Text(Get(name.v, K_firstName)) \o <<" ">> \o Text(Get(name.v, K_lastName)),
        age |-> IF age.t = "undef" THEN Null ELSE age,
        address |-> IF Truthy(address) THEN address ELSE Null,
        additional_info |-> IF DOMAIN additionalInfo # {} THEN Obj(additionalInfo) ELSE Null,
        line |-> userData.line ]

BuildThrows(usersData) == \E k \in DOMAIN usersData : RowThrows(usersData[k])

BuildRows(usersData) == [k \in DOMAIN usersData |-> BuildRow(usersData[k])]

\* The table's constraints (createUsersTable): age INTEGER NOT NULL.
RowAccepted(row) == row.age.t = "int"

InsertAccepted(rows) == \A k \in DOMAIN rows : RowAccepted(rows[k])

(***************************************************************************)
(* The input: the lines the read stream may deliver.                       *)
(***************************************************************************)
HeaderLine == <<"n", "a", "m", "e", ".", "f", "i", "r", "s", "t", "N", "a", "m", "e", ",", "n", "a", "m", "e", ".", "l", "a", "s", "t", "N", "a", "m", "e", ",", "a", "g", "e">>
\* A header without the mandatory path age.
HeaderNoAge == <<"n", "a", "m", "e", ".", "f", "i", "r", "s", "t", "N", "a", "m", "e", ",", "n", "a", "m", "e", ".", "l", "a", "s", "t", "N", "a", "m", "e">>
BlankLine == <<>>
RowOk == <<"R", "o", "h", "i", "t", ",", "P", "r", "a", "s", "a", "d", ",", "3", "5">>
RowBadAge == <<"A", ",", "B", ",", "-", "1", "0">>

\* The files of the model: a first line among FirstLines, then lines among
\* DataLines.
FirstLines == {HeaderLine, HeaderNoAge, BlankLine}
DataLines == {RowOk, RowBadAge, BlankLine}

LinesAt(n) == IF n = 1 THEN FirstLines ELSE DataLines

(***************************************************************************)
(* The state.                                                              *)
(*                                                                         *)
(* The handler of POST /api/process-csv (app.js):                          *)
(*   reqPc      "idle" (no request in progress), "parsing" (awaiting       *)
(*              parseCSVFile), "reporting" (awaiting the age distribution) *)
(*   runNo      the requests started so far                                *)
(*   response   the response to the latest request                        *)
(*   appTotalProcessed, appTotalErrors   the handler's totalProcessed and  *)
(*              totalErrors                                                *)
(*   result     the value parseCSVFile resolved with                       *)
(* Shared resources:                                                       *)
(*   errorLog   the entries of error_log.txt (none: no file)               *)
(*   store      the rows of public.users                                   *)
(*   clients    the pool clients checked out and not released              *)
(* The closure of the running parseCSVFile (parser.js):                    *)
(*   file       the lines delivered so far, closed: 'close' was emitted    *)
(*   headers    <<>> is null (parseCSVLine never returns an empty array)   *)
(*   batch      the content of the array the variable batch is bound to    *)
(*   totalProcessed, totalErrors, currLine                                 *)
(* calls: the invocations of onBatch of the latest request, and those of   *)
(* earlier requests that have not settled.  An invocation holds the array  *)
(* it was given: while shared is TRUE that array is the one batch is bound *)
(* to (pushes show through it); once batch is rebound (batch = []) the     *)
(* array is frozen and usersData holds its content.  len0 is its length    *)
(* when the call was made.  pc is the await the invocation is suspended    *)
(* at ("connect", "begin", "insert", "commit", "rollback") or how it       *)
(* ended ("returned", "thrown"); txn: a transaction is open on its client; *)
(* rows: the values of its INSERT; pending: rows inserted, not committed;  *)
(* client: pool.connect() gave the invocation a client.                    *)
(*                                                                         *)
(* One row taken through the functions of the pipeline on its own, for the *)
(* properties of parseCSVLine, convertRowToObject and the row mapping of    *)
(* uploadUsersBatch (specification RowSpec):                               *)
(*   fnPc       "off" (not in use), "line" (nothing applied yet),          *)
(*              "values", "object", "row" (the last function applied)      *)
(*   inHeader, inLine   the header line and the data line                  *)
(*   outValues  parseCSVLine(inLine)                                       *)
(*   outObject  what convertRowToObject returned or threw                  *)
(*   outRow     the values uploadUsersBatch pushes for the record          *)
(***************************************************************************)
VARIABLES reqPc, runNo, response, appTotalProcessed, appTotalErrors, result,
          errorLog, store, clients,
          file, closed, headers, batch, totalProcessed, totalErrors, currLine,
          calls, delivered, faults,
          fnPc, inHeader, inLine, outValues, outObject, outRow

appVars == <<reqPc, runNo, response, appTotalProcessed, appTotalErrors, result>>
sharedVars == <<errorLog, store, clients>>
parserVars == <<file, closed, headers, batch, totalProcessed, totalErrors, currLine>>
\* delivered counts the lines delivered and faults the failures of the
\* environment, for the bounds MaxLines and MaxFaults.
fnVars == <<fnPc, inHeader, inLine, outValues, outObject, outRow>>
vars == <<appVars, sharedVars, parserVars, calls, delivered, faults, fnVars>>

Fault == faults < MaxFaults /\ faults' = faults + 1
NoFault == faults' = faults

NoResponse == [status |-> 0, recordsProcessed |-> 0, errors |-> 0]
Failure(status) == [status |-> status, recordsProcessed |-> 0, errors |-> 0]
NoResult == [totalProcessed |-> 0, totalErrors |-> 0, headers |-> <<>>]

\* No row is being taken through the functions on its own.
FnIdle ==
  /\ fnPc = "off"
  /\ inHeader = <<>>
  /\ inLine = <<>>
  /\ outValues = <<>>
  /\ outObject = <<>>
  /\ outRow = <<>>

\* The server after start-up: no request yet.
ServerIdle ==
  /\ reqPc = "idle"
  /\ runNo = 0
  /\ response = NoResponse
  /\ appTotalProcessed = 0
  /\ appTotalErrors = 0
  /\ result = NoResult
  /\ errorLog = <<>>
  /\ store = <<>>
  /\ clients = 0
  /\ file = <<>>
  /\ closed = FALSE
  /\ headers = <<>>
  /\ batch = <<>>
  /\ totalProcessed = 0
  /\ totalErrors = 0
  /\ currLine = 0
  /\ calls = <<>>
  /\ delivered = 0
  /\ faults = 0

Init == ServerIdle /\ FnIdle

Settled(c) == c.pc \in {"returned", "thrown"}

\* The array an invocation of onBatch was given, as it is now.
UsersData(c) == IF c.shared THEN batch ELSE c.usersData

\* batch = []: the invocations holding the old array keep it.
Frozen(c) == IF c.shared THEN [c EXCEPT !.shared = FALSE, !.usersData = batch] ELSE c

FreezeAll(cs) == [k \in DOMAIN cs |-> Frozen(cs[k])]

Unsettled(c) == ~Settled(c)

(***************************************************************************)
(* POST /api/process-csv up to the call of parseCSVFile: the error log is  *)
(* deleted, a request without file is answered 400, the table is           *)
(* truncated (a failure is answered 500), and parseCSVFile starts with a   *)
(* fresh closure.  Invocations of onBatch of earlier requests that have    *)
(* not settled go on; the settled ones are forgotten.                      *)
(***************************************************************************)
NewRequest ==
  /\ reqPc = "idle"
  /\ runNo < MaxRuns
  /\ runNo' = runNo + 1
  /\ errorLog' = <<>>
  /\ calls' = FreezeAll(SelectSeq(calls, Unsettled))
  /\ UNCHANGED <<delivered, fnVars>>

NoFile ==
  /\ NewRequest
  /\ NoFault
  /\ response' = Failure(400)
  /\ UNCHANGED <<reqPc, appTotalProcessed, appTotalErrors, result, store, clients,
                 parserVars>>

ClearFails ==
  /\ NewRequest
  /\ Fault
  /\ response' = Failure(500)
  /\ UNCHANGED <<reqPc, appTotalProcessed, appTotalErrors, result, store, clients,
                 parserVars>>

\* clearUsersTable: TRUNCATE TABLE public.users RESTART IDENTITY
Truncated(rows) == <<>>

StartRun ==
  /\ NewRequest
  /\ NoFault
  /\ store' = Truncated(store)
  /\ reqPc' = "parsing"
  /\ response' = NoResponse
  /\ appTotalProcessed' = 0
  /\ appTotalErrors' = 0
  /\ result' = NoResult
  /\ file' = <<>>
  /\ closed' = FALSE
  /\ headers' = <<>>
  /\ batch' = <<>>
  /\ totalProcessed' = 0
  /\ totalErrors' = 0
  /\ currLine' = 0
  /\ UNCHANGED clients

(***************************************************************************)
(* The 'line' listener, up to its return or its first await.               *)
(***************************************************************************)
\* onBatch(batch): app.js calls uploadUsersBatch, which suspends at
\* pool.connect().
NewCall(origin, usersData) ==
  [ id |-> <<runNo, Len(SelectSeq(calls, LAMBDA c : c.run = runNo)) + 1>>,
    run |-> runNo, origin |-> origin, shared |-> TRUE, usersData |-> <<>>,
    len0 |-> Len(usersData), pc |-> "connect", client |-> FALSE, txn |-> FALSE,
    rows |-> <<>>, pending |-> <<>> ]

\* The catch block: the error is counted and appended to the log; a failure
\* of appendFileSync is only reported on the console.
LogEntry(n, message) == [line |-> n, message |-> message]

\* A catch block that also starts a new batch.
CatchDropsBatch(message) ==
  /\ totalErrors' = totalErrors + 1
  /\ \/ errorLog' = Append(errorLog, LogEntry(currLine', message)) /\ NoFault
     \/ errorLog' = errorLog /\ Fault
  /\ batch' = <<>>
  /\ UNCHANGED calls

Catch(message) ==
  /\ totalErrors' = totalErrors + 1
  /\ \/ errorLog' = Append(errorLog, LogEntry(currLine', message)) /\ NoFault
     \/ errorLog' = errorLog /\ Fault
  /\ UNCHANGED <<batch, calls>>

\* batch.push(parsedObject), and the flush when the batch is full.
FlushDue(b) == Len(b) >= batchSize

Push(parsedObject) ==
  LET b == Append(batch, [line |-> currLine', obj |-> parsedObject])
  IN  /\ batch' = b
      /\ calls' = IF FlushDue(b) THEN Append(calls, NewCall("line", b)) ELSE calls
      /\ UNCHANGED <<totalErrors, errorLog, faults>>

HeaderBranch(line) ==
  LET parsed == parseCSVLine(line)
      checked == validateMandatoryFields(parsed)
  IN  /\ headers' = parsed
      /\ IF checked.ok
         THEN UNCHANGED <<batch, calls, totalErrors, errorLog, faults>>
         ELSE Catch(checked.message)

RowBranch(line) ==
  LET converted == convertRowToObject(headers, parseCSVLine(line))
  IN  /\ UNCHANGED headers
      /\ IF converted.ok THEN Push(converted.value) ELSE Catch(converted.message)

Line(line) ==
  /\ reqPc = "parsing"
  /\ ~closed
  /\ delivered < MaxLines
  /\ delivered' = delivered + 1
  /\ file' = Append(file, line)
  /\ currLine' = currLine + 1
  /\ IF headers = <<>> THEN HeaderBranch(line)
     ELSE IF trim(line) = <<>>
          THEN UNCHANGED <<headers, batch, calls, totalErrors, errorLog, faults>>
          ELSE RowBranch(line)
  /\ UNCHANGED <<appVars, store, clients, closed, totalProcessed, fnVars>>

(***************************************************************************)
(* The continuations that run when an invocation of onBatch settles: the   *)
(* rest of the callback of app.js, then the rest of the listener that      *)
(* awaited it.  They touch the closures of their own request only.         *)
(***************************************************************************)
Resolved(processed) ==
  [totalProcessed |-> processed, totalErrors |-> totalErrors, headers |-> headers]

\* app.js: totalProcessed += batch.length, or totalErrors += batch.length
Counted(i, ok) ==
  /\ appTotalProcessed' =
       IF ok THEN appTotalProcessed + Len(UsersData(calls[i])) ELSE appTotalProcessed
  /\ appTotalErrors' =
       IF ok THEN appTotalErrors ELSE appTotalErrors + Len(UsersData(calls[i]))

\* the 'line' listener: totalProcessed += batch.length; batch = []
AfterLineFlush(i, settled) ==
  /\ totalProcessed' = totalProcessed + Len(batch)
  /\ batch' = <<>>
  /\ calls' = FreezeAll([calls EXCEPT ![i] = settled])
  /\ UNCHANGED <<reqPc, result>>

\* the 'close' listener: totalProcessed += batch.length; resolve(...)
AfterCloseFlush(i, settled) ==
  /\ totalProcessed' = totalProcessed + Len(batch)
  /\ result' = Resolved(totalProcessed')
  /\ reqPc' = "reporting"
  /\ calls' = [calls EXCEPT ![i] = settled]
  /\ UNCHANGED batch

Settle(i, ok, settled) ==
  IF calls[i].run = runNo
  THEN /\ Counted(i, ok)
       /\ IF calls[i].origin = "line"
          THEN AfterLineFlush(i, settled)
          ELSE AfterCloseFlush(i, settled)
  ELSE /\ calls' = [calls EXCEPT ![i] = settled]
       /\ UNCHANGED <<appTotalProcessed, appTotalErrors, totalProcessed, batch,
                      reqPc, result>>

(***************************************************************************)
(* uploadUsersBatch, one action per await.                                 *)
(***************************************************************************)
\* An exit path that keeps the client.
releaseForgotten(n) == n

\* finally { client.release() }: one client less is checked out.
release(n) == n - 1

Tagged(rows, id) == [k \in DOMAIN rows |-> [row |-> rows[k], by |-> id]]

\* await this.pool.connect(): a client is checked out, or the call throws
\* before its try block.
Connect(i) ==
  /\ calls[i].pc = "connect"
  /\ \/ /\ NoFault
        /\ clients' = clients + 1
        /\ calls' = [calls EXCEPT ![i].pc = "begin", ![i].client = TRUE]
        /\ UNCHANGED <<appTotalProcessed, appTotalErrors, totalProcessed, batch,
                       reqPc, result>>
     \/ /\ Fault
        /\ Settle(i, FALSE, [calls[i] EXCEPT !.pc = "thrown"])
        /\ UNCHANGED clients
  /\ UNCHANGED <<runNo, response, errorLog, store, file, closed, headers,
                 totalErrors, currLine, delivered, fnVars>>

\* What follows a BEGIN that succeeded: the statement is built from the array
\* as it is now; a TypeError of the loop leads to the catch block.
Built(c) ==
  IF BuildThrows(UsersData(c))
  THEN [c EXCEPT !.txn = TRUE, !.pc = "rollback"]
  ELSE [c EXCEPT !.txn = TRUE, !.pc = "insert",
                 !.rows = Tagged(BuildRows(UsersData(c)), c.id)]

\* What follows a BEGIN that failed: the catch block.
BeginFailed(c) == [c EXCEPT !.pc = "rollback"]

\* await client.query('BEGIN')
Begin(i) ==
  /\ calls[i].pc = "begin"
  /\ \/ calls' = [calls EXCEPT ![i] = Built(calls[i])] /\ NoFault
     \/ calls' = [calls EXCEPT ![i] = BeginFailed(calls[i])] /\ Fault
  /\ UNCHANGED <<appVars, sharedVars, parserVars, delivered, fnVars>>

\* await client.query(query, values): the multi-row INSERT is refused when a
\* row breaks a constraint of the table, and may fail otherwise; outside a
\* transaction the store commits it at once.
\* An INSERT whose failure goes unnoticed (a query that is not awaited).
InsertFailureUnnoticed(c) == [c EXCEPT !.pc = "commit"]

InsertFailed(c) == [c EXCEPT !.pc = "rollback"]

Insert(i) ==
  /\ calls[i].pc = "insert"
  /\ \/ /\ InsertAccepted([k \in DOMAIN calls[i].rows |-> calls[i].rows[k].row])
        /\ NoFault
        /\ IF calls[i].txn
           THEN /\ calls' = [calls EXCEPT ![i].pc = "commit", ![i].pending = calls[i].rows]
                /\ UNCHANGED store
           ELSE /\ calls' = [calls EXCEPT ![i].pc = "commit"]
                /\ store' = store \o calls[i].rows
     \/ /\ ~InsertAccepted([k \in DOMAIN calls[i].rows |-> calls[i].rows[k].row])
        /\ NoFault
        /\ calls' = [calls EXCEPT ![i] = InsertFailed(calls[i])]
        /\ UNCHANGED store
     \/ /\ Fault
        /\ calls' = [calls EXCEPT ![i] = InsertFailed(calls[i])]
        /\ UNCHANGED store
  /\ UNCHANGED <<appVars, errorLog, clients, parserVars, delivered, fnVars>>

\* await client.query('COMMIT'): the pending rows become rows of the table,
\* the client is released and the call returns { success: true, ... }; or
\* COMMIT fails and the catch block runs.
CommitFailed(c) == [c EXCEPT !.pc = "rollback"]

Commit(i) ==
  /\ calls[i].pc = "commit"
  /\ \/ /\ NoFault
        /\ store' = store \o calls[i].pending
        /\ clients' = release(clients)
        /\ Settle(i, TRUE, [calls[i] EXCEPT !.pc = "returned", !.txn = FALSE,
                                            !.pending = <<>>])
     \/ /\ Fault
        /\ calls' = [calls EXCEPT ![i] = CommitFailed(calls[i])]
        /\ UNCHANGED <<store, clients, appTotalProcessed, appTotalErrors,
                       totalProcessed, batch, reqPc, result>>
  /\ UNCHANGED <<runNo, response, errorLog, file, closed, headers, totalErrors,
                 currLine, delivered, fnVars>>

\* await client.query('ROLLBACK'), throw, finally client.release(): the
\* pending rows are dropped whether ROLLBACK succeeds or fails (the store
\* aborts the transaction of a connection that is lost), and the call throws
\* the first error or that of ROLLBACK.
Rollback(i) ==
  /\ calls[i].pc = "rollback"
  /\ NoFault \/ Fault
  /\ clients' = release(clients)
  /\ Settle(i, FALSE, [calls[i] EXCEPT !.pc = "thrown", !.txn = FALSE,
                                       !.pending = <<>>])
  /\ UNCHANGED <<runNo, response, errorLog, store, file, closed, headers,
                 totalErrors, currLine, delivered, fnVars>>

(***************************************************************************)
(* The 'close' listener, up to its first await or its resolve.             *)
(***************************************************************************)
Close ==
  /\ reqPc = "parsing"
  /\ ~closed
  /\ closed' = TRUE
  /\ IF Len(batch) > 0
     THEN /\ calls' = Append(calls, NewCall("close", batch))
          /\ UNCHANGED <<reqPc, result>>
     ELSE /\ result' = Resolved(totalProcessed)
          /\ reqPc' = "reporting"
          /\ UNCHANGED calls
  /\ UNCHANGED <<runNo, response, appTotalProcessed, appTotalErrors, sharedVars,
                 file, headers, batch, totalProcessed, totalErrors, currLine,
                 delivered, faults, fnVars>>

(***************************************************************************)
(* readL.on('error', reject): the read stream fails before the end of the  *)
(* input.  The interface forwards the error of its input (Node.js 16 and   *)
(* later) and emits neither 'line' nor 'close' afterwards; parseCSVFile    *)
(* rejects and the handler answers 500.  The invocations of onBatch that   *)
(* are pending go on.                                                      *)
(***************************************************************************)
\* A stream error that is handled like the end of the input.
StreamErrorFlushes ==
  /\ reqPc = "parsing"
  /\ ~closed
  /\ Fault
  /\ reqPc' = "idle"
  /\ response' = Failure(500)
  /\ calls' = IF Len(batch) > 0 THEN Append(calls, NewCall("close", batch)) ELSE calls
  /\ UNCHANGED <<runNo, appTotalProcessed, appTotalErrors, result, sharedVars,
                 parserVars, delivered, fnVars>>

StreamError ==
  /\ reqPc = "parsing"
  /\ ~closed
  /\ Fault
  /\ reqPc' = "idle"
  /\ response' = Failure(500)
  /\ UNCHANGED <<runNo, appTotalProcessed, appTotalErrors, result, sharedVars,
                 parserVars, calls, delivered, fnVars>>

(***************************************************************************)
(* The handler after parseCSVFile resolved: the age distribution is        *)
(* awaited, then the summary is sent; a failure is answered 500.           *)
(***************************************************************************)
Summary ==
  [ status |-> 200, recordsProcessed |-> appTotalProcessed,
    errors |-> result.totalErrors + appTotalErrors ]

Report ==
  /\ reqPc = "reporting"
  /\ reqPc' = "idle"
  /\ \/ response' = Summary /\ NoFault
     \/ response' = Failure(500) /\ Fault
  /\ UNCHANGED <<runNo, appTotalProcessed, appTotalErrors, result, sharedVars,
                 parserVars, calls, delivered, fnVars>>

Next ==
  \/ NoFile
  \/ ClearFails
  \/ StartRun
  \/ \E line \in LinesAt(Len(file) + 1) : Line(line)
  \/ Close
  \/ StreamError
  \/ \E i \in DOMAIN calls : Connect(i)
  \/ \E i \in DOMAIN calls : Begin(i)
  \/ \E i \in DOMAIN calls : Insert(i)
  \/ \E i \in DOMAIN calls : Commit(i)
  \/ \E i \in DOMAIN calls : Rollback(i)
  \/ Report

Spec == Init /\ [][Next]_vars

(***************************************************************************)
(* One row through the functions of the pipeline, on its own: the 'line'   *)
(* listener applies parseCSVLine to the line and convertRowToObject to the *)
(* values; uploadUsersBatch maps the record to the values of its row.      *)
(***************************************************************************)
\* The lines made of at most n characters of S.
Strings(S, n) == UNION {[1..k -> S] : k \in 0..n}

\* Bounds of the inputs: the length of the lines made of the characters that
\* matter to parseCSVLine, and of the age texts made of the characters of a
\* signed decimal.
MaxLen == 4
MaxAgeLen == 3

LineAlphabet == {"\"", ",", " ", "a"}
AgeAlphabet == {"-", ".", "0", "1"}

QuotedComma == <<"\"", "A", "-", "5", "6", "3", " ", "S", "o", "c", "i", "e", "t", "y", "\"", ",", "P", "u", "n", "e">>
QuotedEscape == <<"\"", "S", "h", "e", " ", "s", "a", "i", "d", " ", "\"", "\"", "h", "i", "\"", "\"", "\"">>
UnquotedEscape == <<"S", "h", "e", " ", "s", "a", "i", "d", " ", "\"", "\"", "h", "i", "\"", "\"">>
ShortRow == <<"R", "o", "h", "i", "t", ",", "P", "r", "a", "s", "a", "d">>

AgeExamples == {<<"3", "5">>, <<"p", "i">>, <<"-", "1", "0">>, <<"-", "0", ".", "5">>, <<"I", "n", "f", "i", "n", "i", "t", "y">>}
AgeTexts == Strings(AgeAlphabet, MaxAgeLen) \cup AgeExamples

RowStart == <<"R", "o", "h", "i", "t", ",", "P", "r", "a", "s", "a", "d", ",">>
RowTails == {<<>>, <<",", "P", "u", "n", "e">>, <<",", "P", "u", "n", "e", ",", "M">>, <<",", "P", "u", "n", "e", ",", "M", ",", "x">>}

HeaderLines ==
  { HeaderLine, HeaderLine \o <<",", "a", "d", "d", "r", "e", "s", "s", ".", "c", "i", "t", "y">>, HeaderLine \o <<",", "g", "e", "n", "d", "e", "r">>, HeaderLine \o <<",", "a", "d", "d", "r", "e", "s", "s", ".", "c", "i", "t", "y", ",", "g", "e", "n", "d", "e", "r">> }

RowLines ==
  Strings(LineAlphabet, MaxLen)
    \cup {QuotedComma, QuotedEscape, UnquotedEscape, ShortRow}
    \cup {RowStart \o age \o tail : age \in AgeTexts, tail \in RowTails}

serverVars == <<appVars, sharedVars, parserVars, calls, delivered, faults>>

RowInit ==
  /\ ServerIdle
  /\ fnPc = "line"
  /\ inHeader \in HeaderLines
  /\ inLine \in RowLines
  /\ outValues = <<>>
  /\ outObject = <<>>
  /\ outRow = <<>>

\* const values = this.parseCSVLine(line)
Tokenize ==
  /\ fnPc = "line"
  /\ fnPc' = "values"
  /\ outValues' = parseCSVLine(inLine)
  /\ UNCHANGED <<serverVars, inHeader, inLine, outObject, outRow>>

\* const parsedObject = this.convertRowToObject(headers, values)
Materialize ==
  /\ fnPc = "values"
  /\ fnPc' = "object"
  /\ outObject' = convertRowToObject(parseCSVLine(inHeader), outValues)
  /\ UNCHANGED <<serverVars, inHeader, inLine, outValues, outRow>>

\* The loop body of uploadUsersBatch for the record.
MapRow ==
  /\ fnPc = "object"
  /\ outObject.ok
  /\ ~RowThrows([line |-> 2, obj |-> outObject.value])
  /\ fnPc' = "row"
  /\ outRow' = BuildRow([line |-> 2, obj |-> outObject.value])
  /\ UNCHANGED <<serverVars, inHeader, inLine, outValues, outObject>>

RowNext == Tokenize \/ Materialize \/ MapRow

RowSpec == RowInit /\ [][RowNext]_vars

(***************************************************************************)
(* Definitions the properties share.                                       *)
(***************************************************************************)
CallsOfRun == SelectSeq(calls, LAMBDA c : c.run = runNo)

\* The input lines of the records an invocation of onBatch was given.
Given(c) == {UsersData(c)[k].line : k \in 1..c.len0}

\* The input lines of the rows of the table a call of uploadUsersBatch wrote.
PersistedBy(c) == {store[k].row.line : k \in {j \in DOMAIN store : store[j].by = c.id}}

HeaderValid == file # <<>> /\ validateMandatoryFields(parseCSVLine(file[1])).ok

\* The data lines of the file that are not blank.
DataLineNos == {k \in 2..Len(file) : trim(file[k]) # <<>>}

Materializes(k) == convertRowToObject(parseCSVLine(file[1]), parseCSVLine(file[k])).ok

ValidLineNos == {k \in DataLineNos : Materializes(k)}
RejectedLineNos == {k \in DataLineNos : ~Materializes(k)}

\* The members of a set of numbers in increasing order.
RECURSIVE Ascending(_)
Ascending(S) ==
  IF S = {} THEN <<>>
  ELSE LET m == CHOOSE x \in S : \A y \in S : x <= y
       IN  <<m>> \o Ascending(S \ {m})

RunInProgress == reqPc \in {"parsing", "reporting"}

(***************************************************************************)
(* C1.  Every call of uploadUsersBatch is all-or-nothing, whatever step    *)
(* fails: a call that returned has written a row for every record it was   *)
(* given, and a call that threw, or has not returned yet, has written      *)
(* none.                                                                   *)
(***************************************************************************)
C1_BatchAllOrNothing ==
  \A i \in DOMAIN calls :
    /\ calls[i].pc = "returned" => Given(calls[i]) \subseteq PersistedBy(calls[i])
    /\ calls[i].pc # "returned" => PersistedBy(calls[i]) = {}

\* One call returned with its rows written, and another, whose INSERT or
\* COMMIT failed after the statement was built, threw.
C1_Witness ==
  /\ \E i \in DOMAIN calls :
       /\ calls[i].pc = "returned"
       /\ Given(calls[i]) # {}
       /\ Given(calls[i]) \subseteq PersistedBy(calls[i])
  /\ \E j \in DOMAIN calls : calls[j].pc = "thrown" /\ calls[j].rows # <<>>

(***************************************************************************)
(* C2.  While a flush of the current run is awaited no record is appended  *)
(* to the array it was given, and at most one batch write is in flight.    *)
(***************************************************************************)
InFlight == {i \in DOMAIN calls : calls[i].run = runNo /\ Unsettled(calls[i])}

C2_FlushSerialized ==
  /\ \A i \in InFlight : Len(UsersData(calls[i])) = calls[i].len0
  /\ Cardinality(InFlight) <= 1

(***************************************************************************)
(* C3.  A data row whose materialization fails is counted once, gets       *)
(* exactly one log entry with its line number, enters no batch, is not     *)
(* written, and leaves the rest of the run as it was.                      *)
(***************************************************************************)
RowFails ==
  /\ delivered' = delivered + 1
  /\ headers # <<>>
  /\ trim(file'[Len(file')]) # <<>>
  /\ ~convertRowToObject(headers, parseCSVLine(file'[Len(file')])).ok

RowFailureMessage == convertRowToObject(headers, parseCSVLine(file'[Len(file')])).message

RowSkipped ==
  /\ totalErrors' = totalErrors + 1
  /\ UNCHANGED <<headers, batch, calls, store, totalProcessed, appTotalProcessed,
                 appTotalErrors, reqPc, closed>>

\* The claim as stated: the entry is always appended.
C3_RowFailureLogged ==
  [][RowFails => /\ RowSkipped
                 /\ errorLog' = Append(errorLog, LogEntry(currLine', RowFailureMessage))]_vars

\* As amended: the entry is appended unless the log file cannot be written.
C3_RowFailureLoggedIfWritable ==
  [][RowFails => /\ RowSkipped
                 /\ \/ errorLog' = Append(errorLog, LogEntry(currLine', RowFailureMessage))
                    \/ (errorLog' = errorLog /\ faults' = faults + 1)]_vars

\* A row was rejected and logged with its line number, and a later row is in
\* the batch.
C3_Witness ==
  \E e \in DOMAIN errorLog : \E k \in DOMAIN batch :
    /\ errorLog[e].line < batch[k].line
    /\ errorLog[e].line \in RejectedLineNos
    /\ HeaderValid

(***************************************************************************)
(* C4.  A header (a first line that is not blank) without a mandatory     *)
(* path fails the run: nothing is logged or counted as a row error, no row *)
(* is materialized or handed to the writer, and the response is not a      *)
(* success summary.                                                        *)
(***************************************************************************)
HeaderLacksField == file # <<>> /\ trim(file[1]) # <<>> /\ ~HeaderValid

C4_MissingHeaderIsFatal ==
  (RunInProgress \/ response.status = 200) /\ HeaderLacksField
    => /\ errorLog = <<>>
       /\ totalErrors = 0
       /\ batch = <<>>
       /\ CallsOfRun = <<>>
       /\ response.status # 200

(***************************************************************************)
(* C5.  Full refresh: after a run with a valid header whose batch writes   *)
(* all succeeded, the table holds exactly one row for each valid data row  *)
(* of the file, and nothing else.                                          *)
(***************************************************************************)
RunSucceeded ==
  /\ reqPc = "idle"
  /\ response.status = 200
  /\ HeaderValid
  /\ \A i \in DOMAIN calls : calls[i].pc = "returned"

C5_FullRefresh ==
  RunSucceeded =>
    /\ \A k \in ValidLineNos :
         Cardinality({j \in DOMAIN store : store[j].row.line = k}) = 1
    /\ \A j \in DOMAIN store :
         store[j].by[1] = runNo /\ store[j].row.line \in ValidLineNos

(***************************************************************************)
(* C6.  For N valid rows parseCSVFile calls onBatch ceil(N / batchSize)    *)
(* times, the k-th time with the k-th slice of batchSize rows (the last    *)
(* slice may be shorter).                                                  *)
(***************************************************************************)
Min(a, b) == IF a < b THEN a ELSE b

Slice(k) ==
  LET valid == Ascending(ValidLineNos)
  IN  {valid[n] : n \in ((k - 1) * batchSize + 1)..Min(k * batchSize, Len(valid))}

C6_FlushCount ==
  reqPc = "reporting" /\ HeaderValid =>
    /\ Len(CallsOfRun) = (Cardinality(ValidLineNos) + batchSize - 1) \div batchSize
    /\ \A k \in DOMAIN CallsOfRun : Given(CallsOfRun[k]) = Slice(k)

(***************************************************************************)
(* C7.  In the summary recordsProcessed is the total size of the batches   *)
(* that committed and errors the row failures plus the total size of the   *)
(* batches whose write failed.                                             *)
(***************************************************************************)
RECURSIVE SizeOf(_, _)
SizeOf(cs, how) ==
  IF cs = <<>> THEN 0
  ELSE (IF Head(cs).pc = how THEN Head(cs).len0 ELSE 0) + SizeOf(Tail(cs), how)

C7_SummaryCounts ==
  response.status = 200 /\ HeaderValid /\ InFlight = {} =>
    /\ response.recordsProcessed = SizeOf(CallsOfRun, "returned")
    /\ response.errors = totalErrors + SizeOf(CallsOfRun, "thrown")

(***************************************************************************)
(* C8.  Batches are written in the order they were handed over: the write  *)
(* of a batch does not start before the writes of the earlier batches have *)
(* completed.                                                              *)
(***************************************************************************)
WriteStarted(c) == c.pc \in {"insert", "commit", "rollback", "returned"}

C8_WritesInOrder ==
  \A i, j \in DOMAIN CallsOfRun :
    i < j /\ WriteStarted(CallsOfRun[j]) => Settled(CallsOfRun[i])

(***************************************************************************)
(* C9.  At end of an input with a valid header the records materialized    *)
(* since the previous flush are flushed by one call of onBatch, and there  *)
(* is no such call when there are none.                                    *)
(***************************************************************************)
CloseCalls == SelectSeq(CallsOfRun, LAMBDA c : c.origin = "close")
LineCalls == SelectSeq(CallsOfRun, LAMBDA c : c.origin = "line")

Materialized ==
  {k \in DataLineNos : convertRowToObject(headers, parseCSVLine(file[k])).ok}

FlushedByLine == UNION {Given(LineCalls[k]) : k \in DOMAIN LineCalls}

C9_FinalFlush ==
  RunInProgress /\ closed /\ HeaderValid =>
    IF Materialized \ FlushedByLine = {}
    THEN CloseCalls = <<>>
    ELSE /\ Len(CloseCalls) = 1
         /\ Given(CloseCalls[1]) = Materialized \ FlushedByLine

(***************************************************************************)
(* C10.  The error log is per run: during and after a run it holds one     *)
(* line for each data row the run rejected, in order, and nothing else.    *)
(***************************************************************************)
C10_LogIsPerRun ==
  RunInProgress \/ response.status = 200 =>
    [k \in DOMAIN errorLog |-> errorLog[k].line] = Ascending(RejectedLineNos)

(***************************************************************************)
(* Definitions the properties of RowSpec share.                            *)
(***************************************************************************)
\* convertRowToObject returned a record for the row.
Accepted == fnPc \in {"object", "row"} /\ outObject.ok

Rejected == fnPc \in {"object", "row"} /\ ~outObject.ok

\* The key map of the record, and the raw age value: age is the third column
\* of every header of HeaderLines.
Record == outObject.value.v
RawAge == outValues[3]

\* A text parseInt reads as an integer that is not negative.
IsNonNegativeInteger(text) ==
  text # <<>> /\ ~parseIntIsNaN(text) /\ parseInt(text) >= 0

(***************************************************************************)
(* C11.  A record convertRowToObject returns for a header with the         *)
(* mandatory paths has name = {firstName, lastName} of the row and an age  *)
(* leaf that is an integer >= 0, and its raw age value is a non-empty text *)
(* that reads as an integer >= 0.                                          *)
(***************************************************************************)
C11_RecordShape ==
  Accepted =>
    /\ Get(Record, K_name).t = "obj"
    /\ DOMAIN Get(Record, K_name).v = {K_firstName, K_lastName}
    /\ Get(Record, K_name).v[K_firstName] = Str(outValues[1])
    /\ Get(Record, K_name).v[K_lastName] = Str(outValues[2])
    /\ Get(Record, F_age).t = "int"
    /\ Get(Record, F_age).v >= 0
    /\ IsNonNegativeInteger(RawAge)

(***************************************************************************)
(* C12.  A row whose age value is empty, not numeric or negative fails     *)
(* materialization, with the message that quotes the raw value and states  *)
(* the rule.                                                               *)
(***************************************************************************)
Infinity == <<"I", "n", "f", "i", "n", "i", "t", "y">>

\* A numeric text below zero: a minus sign, then a decimal with a digit that
\* is not 0, or Infinity.
IsNegative(text) ==
  /\ text # <<>>
  /\ Head(text) = "-"
  /\ ~isNaN(text)
  /\ \/ \E i \in DOMAIN text : text[i] \in Digits \ {"0"}
     \/ Tail(text) = Infinity

BadAge(text) == text = <<>> \/ isNaN(text) \/ IsNegative(text)

InvalidAgeMessage(value) ==
  <<"Invalid age value: \"", value, "\". Age must be a valid positive number.">>

C12_BadAgeRejected ==
  fnPc \in {"object", "row"} /\ Len(outValues) >= 3 /\ BadAge(RawAge) =>
    /\ ~outObject.ok
    /\ outObject.message = InvalidAgeMessage(RawAge)

(***************************************************************************)
(* C13.  parseCSVLine returns 1 + (the commas outside quotes) fields, each *)
(* trimmed; a comma inside quotes stays in its field and the quotes that   *)
(* enclose a field are dropped; "A-563 Society",Pune gives the fields      *)
(* A-563 Society and Pune, and the empty line one empty field.             *)
(***************************************************************************)
Tokenized == fnPc \in {"values", "object", "row"}

\* A position is outside quotes when an even number of quote characters
\* precedes it.
QuotesBefore(line, i) == Cardinality({j \in 1..(i - 1) : line[j] = "\""})

OutsideQuotes(line, i) == QuotesBefore(line, i) % 2 = 0

Separators(line) ==
  Ascending({i \in DOMAIN line : line[i] = "," /\ OutsideQuotes(line, i)})

\* The text between the (k-1)-th and the k-th separator.
Segment(line, k) ==
  LET seps == Separators(line)
      from == IF k = 1 THEN 1 ELSE seps[k - 1] + 1
      to == IF k > Len(seps) THEN Len(line) ELSE seps[k] - 1
  IN  SubSeq(line, from, to)

NotQuote(c) == c # "\""

NoDoubledQuote(line) ==
  \A i \in DOMAIN line : i < Len(line) => ~(line[i] = "\"" /\ line[i + 1] = "\"")

C13_FieldsOfLine ==
  Tokenized =>
    /\ Len(outValues) = 1 + Len(Separators(inLine))
    /\ \A k \in DOMAIN outValues : trim(outValues[k]) = outValues[k]
    /\ NoDoubledQuote(inLine) =>
         \A k \in DOMAIN outValues :
           outValues[k] = trim(SelectSeq(Segment(inLine, k), NotQuote))
    /\ inLine = QuotedComma =>
         outValues = << <<"A", "-", "5", "6", "3", " ", "S", "o", "c", "i", "e", "t", "y">>,
                        <<"P", "u", "n", "e">> >>
    /\ inLine = <<>> => outValues = << <<>> >>

\* The line with a quoted comma has been split in two fields, and a line
\* with a comma outside quotes and a blank around a field has been split
\* and trimmed.
C13_Witness ==
  /\ Tokenized
  /\ \/ inLine = QuotedComma /\ Len(outValues) = 2
     \/ inLine = <<" ", "a", ",", "\"">> /\ outValues = << <<"a">>, <<>> >>

(***************************************************************************)
(* C14.  Doubled quote characters come out as literal quote characters,    *)
(* in a field enclosed in quotes and in a field that is not: both          *)
(* "She said ""hi""" and She said ""hi"" give the field She said "hi".     *)
(***************************************************************************)
SheSaidHi == <<"S", "h", "e", " ", "s", "a", "i", "d", " ", "\"", "h", "i", "\"">>

C14_DoubledQuotesKept ==
  Tokenized /\ inLine \in {QuotedEscape, UnquotedEscape} => outValues = <<SheSaidHi>>

(***************************************************************************)
(* C15.  Headers and values are paired by index: a row with fewer values   *)
(* than headers (and a valid age) is materialized without error into a     *)
(* record that lacks the columns without a value, and the values beyond    *)
(* the last header are ignored.                                            *)
(***************************************************************************)
HeaderFields == parseCSVLine(inHeader)

ValidAge(text) == ~isNaN(text) /\ IsNonNegativeInteger(text)

\* The record of the first n columns of the row.
RecordOfFirst(n) == convertRowToObject(SubSeq(HeaderFields, 1, n), SubSeq(outValues, 1, n))

C15_ZippedByIndex ==
  fnPc \in {"object", "row"} /\ Len(outValues) >= 3 /\ ValidAge(RawAge) =>
    /\ Len(outValues) < Len(HeaderFields) =>
         outObject.ok /\ outObject = RecordOfFirst(Len(outValues))
    /\ Len(outValues) > Len(HeaderFields) =>
         outObject.ok /\ outObject = RecordOfFirst(Len(HeaderFields))

(***************************************************************************)
(* C16.  A blank line, wherever it occurs, is skipped before tokenizing:   *)
(* it does not become the header and it produces no record, no error      *)
(* entry and no change of the counters.                                    *)
(***************************************************************************)
BlankDelivered == delivered' = delivered + 1 /\ trim(file'[Len(file')]) = <<>>

C16_BlankLinesSkipped ==
  [][BlankDelivered =>
       UNCHANGED <<headers, batch, calls, totalProcessed, totalErrors, errorLog, store>>]_vars

(***************************************************************************)
(* C17.  A call of uploadUsersBatch holds one pool client from the moment  *)
(* pool.connect() resolves until it returns or throws, on every exit path: *)
(* the clients checked out are those of the calls between connect and      *)
(* exit, and none is checked out when no call is executing.                *)
(***************************************************************************)
Holding == {i \in DOMAIN calls : calls[i].pc \in {"begin", "insert", "commit", "rollback"}}

C17_ConnectionsBalanced ==
  /\ clients = Cardinality(Holding)
  /\ (\A i \in DOMAIN calls : Settled(calls[i])) => clients = 0

\* A call returned after COMMIT, another threw after it had been given a
\* client, and no client is checked out.
C17_Witness ==
  /\ \E i \in DOMAIN calls : calls[i].pc = "returned"
  /\ \E j \in DOMAIN calls : calls[j].pc = "thrown" /\ calls[j].client
  /\ \A i \in DOMAIN calls : Settled(calls[i])
  /\ clients = 0

(***************************************************************************)
(* C18.  When no connection can be obtained for a batch write of a run     *)
(* with a valid header the run is aborted: the caller is not sent a        *)
(* success summary.                                                        *)
(***************************************************************************)
\* pool.connect() rejected: the call threw without having had a client.
ConnectRefused(c) == c.pc = "thrown" /\ ~c.client

C18_UnreachableStoreAborts ==
  HeaderValid /\ (\E k \in DOMAIN CallsOfRun : ConnectRefused(CallsOfRun[k]))
    => response.status # 200

(***************************************************************************)
(* C19.  When the read stream fails in the middle of the input the run     *)
(* fails at once (the handler answers 500), and the records accumulated in *)
(* the batch and not yet flushed are never written: no call of onBatch is  *)
(* started at the error or after it, and no row of the table comes from    *)
(* such a record.                                                          *)
(***************************************************************************)
\* The step of the stream error: the only one from parsing to idle.
StreamFails == reqPc = "parsing" /\ reqPc' = "idle"

\* The run in the closure ended with a stream error: 'close' never came.
Errored == reqPc = "idle" /\ runNo > 0 /\ ~closed /\ response.status = 500

CallIds == {calls[i].id : i \in DOMAIN calls}

Flushed == UNION {Given(CallsOfRun[k]) : k \in DOMAIN CallsOfRun}

Unflushed == {batch[k].line : k \in DOMAIN batch} \ Flushed

C19_StreamErrorDiscards ==
  /\ [][StreamFails => response'.status = 500 /\ calls' = calls /\ batch' = batch]_vars
  /\ [][reqPc = "idle" => CallIds' \subseteq CallIds]_vars
  /\ [](Errored =>
          \A j \in DOMAIN store : store[j].by[1] = runNo => store[j].row.line \notin Unflushed)

\* The stream failed after a record had been put in the batch: the record
\* was given to no call and the table is empty.
C19_Witness ==
  /\ Errored
  /\ Unflushed # {}
  /\ CallsOfRun = <<>>
  /\ store = <<>>

(***************************************************************************)
(* C20.  The persisted form of a record.  The record has the mandatory     *)
(* paths at its top level and every other path under additional_info; the *)
(* row the store accepts has name = firstName, one space, lastName, age    *)
(* the integer, address the address sub-tree of additional_info (null      *)
(* without one) and additional_info the other leaves (null without any).   *)
(* Header name.firstName,name.lastName,age with row Rohit,Prasad,35 gives  *)
(* {name: "Rohit Prasad", age: 35, address: null, additional_info: null}.  *)
(***************************************************************************)
H_city == <<"a", "d", "d", "r", "e", "s", "s", ".", "c", "i", "t", "y">>
H_gender == <<"g", "e", "n", "d", "e", "r">>
K_city == <<"c", "i", "t", "y">>
RohitPrasad == <<"R", "o", "h", "i", "t", " ", "P", "r", "a", "s", "a", "d">>

Has(header) == Includes(HeaderFields, header)

\* The value of the row in the column of a header.
ValueOf(header) ==
  outValues[CHOOSE i \in DOMAIN HeaderFields : HeaderFields[i] = header]

\* Two values of a row are the same value.
Same(x, y) == x.t = y.t /\ (x.t = "null" \/ x.v = y.v)

Persisted == fnPc = "row" /\ RowAccepted(outRow)

ExpectedAddress ==
  IF Has(H_city) THEN Obj([k \in {K_city} |-> Str(ValueOf(H_city))]) ELSE Null

ExpectedInfo ==
  IF Has(H_gender) THEN Obj([k \in {H_gender} |-> Str(ValueOf(H_gender))]) ELSE Null

C20_PersistedForm ==
  Persisted =>
    /\ DOMAIN Record \subseteq {K_name, F_age, K_additional_info}
    /\ K_additional_info \in DOMAIN Record <=> (Has(H_city) \/ Has(H_gender))
    /\ outRow.name = outValues[1] \o <<" ">> \o outValues[2]
    /\ outRow.age = IntVal(parseInt(RawAge))
    /\ Same(outRow.address, ExpectedAddress)
    /\ Same(outRow.additional_info, ExpectedInfo)
    /\ inHeader = HeaderLine /\ inLine = RowOk =>
         /\ outRow.name = RohitPrasad
         /\ outRow.age = IntVal(35)
         /\ outRow.address = Null
         /\ outRow.additional_info = Null

\* The example row has been mapped, or a row with an address and another
\* column has been mapped to a row with both documents.
C20_Witness ==
  /\ Persisted
  /\ \/ inHeader = HeaderLine /\ inLine = RowOk
     \/ outRow.address.t = "obj" /\ outRow.additional_info.t = "obj"

\* The run of the example, under Spec: the file of the header and the row
\* Rohit,Prasad,35, no failure of the environment and no write of an earlier
\* run pending, is answered {recordsProcessed: 1, errors: 0} and leaves the
\* one row of the example in the table.
ExampleRun ==
  /\ response.status = 200
  /\ file = <<HeaderLine, RowOk>>
  /\ faults = 0
  /\ \A i \in DOMAIN calls : calls[i].run = runNo

ExampleRunSummary ==
  ExampleRun =>
    /\ response.recordsProcessed = 1
    /\ response.errors = 0
    /\ Len(store) = 1
    /\ store[1].row.name = RohitPrasad
    /\ store[1].row.age = IntVal(35)
    /\ store[1].row.address = Null
    /\ store[1].row.additional_info = Null

(***************************************************************************)
(* C21.  In a run with a valid header every materialized record is handed  *)
(* to the writer in exactly one flush: no record is in the arrays of two   *)
(* calls of onBatch, and when parseCSVFile has resolved every materialized *)
(* record is in the array of a call.                                       *)
(***************************************************************************)
\* The input lines of the records in the array of a call, as it is now.
ArrayOf(c) == {UsersData(c)[k].line : k \in DOMAIN UsersData(c)}

C21_FlushedExactlyOnce ==
  HeaderValid =>
    /\ \A i, j \in DOMAIN CallsOfRun :
         i # j => ArrayOf(CallsOfRun[i]) \cap ArrayOf(CallsOfRun[j]) = {}
    /\ reqPc = "reporting" =>
         Materialized \subseteq UNION {ArrayOf(CallsOfRun[k]) : k \in DOMAIN CallsOfRun}

(***************************************************************************)
(* C22.  When parseCSVFile has resolved, and when the summary has been     *)
(* sent, no batch write of the run is pending, and no row of a run is      *)
(* committed once the run has been answered.                               *)
(***************************************************************************)
Answered == reqPc = "idle" /\ response.status = 200

\* The rows of the table written by calls of the current run.
RowsOfRun == SelectSeq(store, LAMBDA r : r.by[1] = runNo)

C22_NoWritePendingAtSummary ==
  /\ [](HeaderValid /\ (reqPc = "reporting" \/ Answered) => InFlight = {})
  /\ [][HeaderValid /\ Answered /\ runNo' = runNo => RowsOfRun' = RowsOfRun]_vars

(***************************************************************************)
(* C23.  Count conservation: in the summary of a run with a valid header   *)
(* recordsProcessed + errors is the number of data lines of the file that  *)
(* are not blank.                                                          *)
(***************************************************************************)
C23_CountConservation ==
  Answered /\ HeaderValid =>
    response.recordsProcessed + response.errors = Cardinality(DataLineNos)

====
